---------------------------- MODULE Spec2Model ----------------------------
(***************************************************************************)
(* LayerDrawable (libs/hwui/pipeline/skia/LayerDrawable.cpp): drawing one  *)
(* hwui Layer onto an SkCanvas.                                            *)
(*                                                                         *)
(* SkScalar values are modelled as exact rationals <<n, d>> (d > 0, lowest *)
(* terms); an SkMatrix is the 9-tuple of its entries in setAll order       *)
(* (scaleX, skewX, transX, skewY, scaleY, transY, persp0, persp1, persp2). *)
(* IEEE single-precision rounding of 1.0f / layerWidth is not modelled.    *)
(***************************************************************************)
EXTENDS Integers, Sequences, FiniteSets, TLC

VARIABLES canvas, layer, calls, ret, args, entry, prev

vars == <<canvas, layer, calls, ret, args, entry, prev>>

-----------------------------------------------------------------------------
(* Bounds of the model. *)

\* layer widths and heights range over 1..MaxDim, plus the 100 x 50 layer
MaxDim == 2

\* the canvas enters with 0..MaxSaveDepth saves already on its stack
MaxSaveDepth == 1

-----------------------------------------------------------------------------
(* SkScalar arithmetic, exact. *)

\* the element of a one-element set; {e(x) : x \in {v}} evaluates v once,
\* as a C++ local does, however often e uses x
The(S) == CHOOSE v \in S : TRUE

Abs(n) == IF n < 0 THEN -n ELSE n

RECURSIVE GCD(_, _)
GCD(a, b) ==
    The({IF y = 0 THEN x ELSE GCD(y, x % y) : x \in {a}, y \in {b}})

\* the rational n / d in lowest terms with a positive denominator (d # 0)
Q(n, d) ==
    The({ The({<<x \div g, y \div g>> : g \in {GCD(Abs(x), Abs(y))}}) :
          x \in {IF d < 0 THEN -n ELSE n}, y \in {Abs(d)} })

R(n) == <<n, 1>>

QAdd(a, b) ==
    The({ IF x[1] = 0 THEN y
          ELSE IF y[1] = 0 THEN x
          ELSE IF x[2] = 1 /\ y[2] = 1 THEN <<x[1] + y[1], 1>>
          ELSE Q(x[1] * y[2] + y[1] * x[2], x[2] * y[2]) :
          x \in {a}, y \in {b} })

QNeg(a) == The({<<-x[1], x[2]>> : x \in {a}})

QSub(a, b) == QAdd(a, QNeg(b))

QMul(a, b) ==
    The({ IF x[1] = 0 \/ y[1] = 0 THEN <<0, 1>>
          ELSE IF x[2] = 1 /\ y[2] = 1 THEN <<x[1] * y[1], 1>>
          ELSE Q(x[1] * y[1], x[2] * y[2]) :
          x \in {a}, y \in {b} })

\* a / b, b # 0
QDiv(a, b) ==
    The({ IF x[1] = 0 THEN <<0, 1>>
          ELSE IF y = <<1, 1>> THEN x
          ELSE Q(x[1] * y[2], x[2] * y[1]) :
          x \in {a}, y \in {b} })

QLess(a, b) == The({x[1] * y[2] < y[1] * x[2] : x \in {a}, y \in {b}})
QMin(a, b) == The({IF QLess(y, x) THEN y ELSE x : x \in {a}, y \in {b}})
QMax(a, b) == The({IF QLess(x, y) THEN y ELSE x : x \in {a}, y \in {b}})
QMin4(a, b, c, d) == QMin(QMin(a, b), QMin(c, d))
QMax4(a, b, c, d) == QMax(QMax(a, b), QMax(c, d))

-----------------------------------------------------------------------------
(* SkMatrix. *)

\* SkMatrix::setAll with integer entries
SetAll(a, b, c, d, e, f, g, h, i) ==
    <<R(a), R(b), R(c), R(d), R(e), R(f), R(g), R(h), R(i)>>

\* SkMatrix::I()
MIdentity == SetAll(1, 0, 0, 0, 1, 0, 0, 0, 1)

\* SkMatrix::isIdentity: every entry equals the identity's
IsIdentity(m) == m = MIdentity

At(m, i, j) == m[3 * (i - 1) + j]

\* row i of a times column j of b
Dot(a, b, i, j) ==
    QAdd(QAdd(QMul(At(a, i, 1), At(b, 1, j)),
              QMul(At(a, i, 2), At(b, 2, j))),
         QMul(At(a, i, 3), At(b, 3, j)))

\* SkMatrix::Concat(a, b) = a * b: a point is mapped by b first, then by a
MConcat(a, b) ==
    The({ << Dot(x, y, 1, 1), Dot(x, y, 1, 2), Dot(x, y, 1, 3),
             Dot(x, y, 2, 1), Dot(x, y, 2, 2), Dot(x, y, 2, 3),
             Dot(x, y, 3, 1), Dot(x, y, 3, 2), Dot(x, y, 3, 3) >> :
          x \in {a}, y \in {b} })

\* SkMatrix::setScale
MScale(sx, sy) ==
    <<sx, R(0), R(0), R(0), sy, R(0), R(0), R(0), R(1)>>

\* m.preConcat(o): m = m * o
PreConcat(m, o) == MConcat(m, o)

\* m.preScale(sx, sy): m = m * scale(sx, sy)
PreScale(m, sx, sy) == MConcat(m, MScale(sx, sy))

\* m.postScale(sx, sy): m = scale(sx, sy) * m
PostScale(m, sx, sy) == MConcat(MScale(sx, sy), m)

Det2(a, b, c, d) == QSub(QMul(a, d), QMul(b, c))

MDet(m) ==
    The({ QAdd(QSub(QMul(x[1], Det2(x[5], x[6], x[8], x[9])),
                    QMul(x[2], Det2(x[4], x[6], x[7], x[9]))),
               QMul(x[3], Det2(x[4], x[5], x[7], x[8]))) : x \in {m} })

\* the adjugate of m (transposed cofactors)
MAdjugate(m) ==
    The({ << Det2(x[5], x[6], x[8], x[9]), Det2(x[3], x[2], x[9], x[8]),
             Det2(x[2], x[3], x[5], x[6]),
             Det2(x[6], x[4], x[9], x[7]), Det2(x[1], x[3], x[7], x[9]),
             Det2(x[3], x[1], x[6], x[4]),
             Det2(x[4], x[5], x[7], x[8]), Det2(x[2], x[1], x[8], x[7]),
             Det2(x[1], x[2], x[4], x[5]) >> : x \in {m} })

\* SkMatrix::invert(&out): false and out untouched when the determinant is
\* zero, otherwise true and out = the inverse
Invertible(m) == MDet(m) # R(0)

MDivide(m, q) ==
    The({ << QDiv(x[1], y), QDiv(x[2], y), QDiv(x[3], y),
             QDiv(x[4], y), QDiv(x[5], y), QDiv(x[6], y),
             QDiv(x[7], y), QDiv(x[8], y), QDiv(x[9], y) >> :
          x \in {m}, y \in {q} })

MInverse(m) == The({MDivide(MAdjugate(x), MDet(x)) : x \in {m}})

\* SkMatrix::mapXY, with the perspective divide of a non-affine matrix
MapPoint(m, x, y) ==
    The({ IF pz = R(0) \/ pz = R(1) THEN <<px, py>>
          ELSE <<QDiv(px, pz), QDiv(py, pz)>> :
          px \in {QAdd(QAdd(QMul(m[1], x), QMul(m[2], y)), m[3])},
          py \in {QAdd(QAdd(QMul(m[4], x), QMul(m[5], y)), m[6])},
          pz \in {QAdd(QAdd(QMul(m[7], x), QMul(m[8], y)), m[9])} })

\* SkRect
MakeRect(l, t, r, b) == [left |-> l, top |-> t, right |-> r, bottom |-> b]

\* SkRect::MakeIWH(w, h)
MakeIWH(w, h) == MakeRect(R(0), R(0), R(w), R(h))

\* SkMatrix::mapRect(&rect): the bounds of the four mapped corners
MapRect(m, r) ==
    The({ The({ MakeRect(QMin4(p1[1], p2[1], p3[1], p4[1]),
                         QMin4(p1[2], p2[2], p3[2], p4[2]),
                         QMax4(p1[1], p2[1], p3[1], p4[1]),
                         QMax4(p1[2], p2[2], p3[2], p4[2])) :
                p1 \in {MapPoint(x, s.left, s.top)},
                p2 \in {MapPoint(x, s.right, s.top)},
                p3 \in {MapPoint(x, s.right, s.bottom)},
                p4 \in {MapPoint(x, s.left, s.bottom)} }) :
          x \in {m}, s \in {r} })

-----------------------------------------------------------------------------
(* The inputs: GrContext, Layer, destination rectangle, SkCanvas. *)

NullContext == "nullptr"
GrContext == "GrContext"
Contexts == {NullContext, GrContext}

NoImage == "nullptr"
Images == {NoImage, "SkImage"}

\* a null Layer*
NoLayer == [null |-> TRUE]

\* a null const SkRect*
NoRect == [null |-> TRUE]
DstRects == {NoRect, MakeRect(R(0), R(0), R(4), R(4)),
             MakeRect(R(1), R(2), R(5), R(3))}

\* Layer::getWidth, Layer::getHeight
Dims == {<<w, h>> : w \in 1..MaxDim, h \in 1..MaxDim} \cup {<<100, 50>>}

\* Layer::getTransform: identity, a translation, a scale, a quarter turn
Transforms == {MIdentity,
               SetAll(1, 0, 3, 0, 1, 4, 0, 0, 1),
               SetAll(2, 0, 0, 0, 3, 0, 0, 0, 1),
               SetAll(0, -1, 0, 1, 0, 0, 0, 0, 1)}

\* Layer::getTexTransform: identity, the vertical flip, a crop by one half,
\* and a singular matrix (zero scale on the x axis)
TexTransforms == {MIdentity,
                  SetAll(1, 0, 0, 0, -1, 1, 0, 0, 1),
                  <<Q(1, 2), R(0), Q(1, 4), R(0), R(1), R(0), R(0), R(0), R(1)>>,
                  SetAll(0, 0, 0, 0, 1, 0, 0, 0, 1)}

Layers ==
    [image : Images, transform : Transforms, texTransform : TexTransforms,
     dims : Dims, alpha : {255}, mode : {"kSrcOver"},
     colorFilter : {"nullptr"}, forceFilter : BOOLEAN]

getWidth(l) == l.dims[1]
getHeight(l) == l.dims[2]

\* the transform state of an SkCanvas when a draw begins
CanvasMatrices == {MIdentity, SetAll(1, 0, 7, 0, 1, 0, 0, 0, 1)}

Stacks ==
    UNION {[1..n -> {MIdentity}] : n \in 0..MaxSaveDepth}

Canvases ==
    [ctm : CanvasMatrices, stack : Stacks, grContext : Contexts,
     calls : {<<>>}]

\* one more call on the canvas
Record(c, call) == [c EXCEPT !.calls = Append(@, call)]

\* SkCanvas::save
Save(c) ==
    The({ Record([x EXCEPT !.stack = Append(@, x.ctm)], [op |-> "save"]) :
          x \in {c} })

\* SkCanvas::concat
Concat(c, m) ==
    The({ Record([x EXCEPT !.ctm = MConcat(@, y)],
                 [op |-> "concat", matrix |-> y]) :
          x \in {c}, y \in {m} })

\* SkCanvas::restore: nothing to pop leaves the transform alone
Restore(c) ==
    The({ IF x.stack = <<>>
          THEN Record(x, [op |-> "restore"])
          ELSE Record([x EXCEPT !.ctm = x.stack[Len(x.stack)],
                                !.stack = SubSeq(@, 1, Len(@) - 1)],
                      [op |-> "restore"]) :
          x \in {c} })

\* SkCanvas::drawImageRect
DrawImageRect(c, image, src, dst, paint, constraint) ==
    Record(c, [op |-> "drawImageRect", image |-> image, src |-> src,
               dst |-> dst, paint |-> paint, constraint |-> constraint])

\* SkCanvas::drawImage
DrawImage(c, image, x, y, paint) ==
    Record(c, [op |-> "drawImage", image |-> image, x |-> x, y |-> y,
               paint |-> paint])

-----------------------------------------------------------------------------
(* LayerDrawable::DrawLayer *)

\* variant: the null check is missing
ContextIsNullNever(context) == FALSE

ContextIsNull(context) == context = NullContext

\* variant: the image is drawn without the null check
HasImageAlways(l) == TRUE

HasImage(l) == l.image # NoImage

flipV == SetAll(1, 0, 0, 0, -1, 1, 0, 0, 1)

\* variant: the vertical flip is left out
TextureMatrixInvNoFlip(l) ==
    PostScale(PreScale(l.texTransform,
                       Q(1, getWidth(l)), Q(1, getHeight(l))),
              R(getWidth(l)), R(getHeight(l)))

\* textureMatrixInv after preConcat(flipV), preScale and postScale
TextureMatrixInv(l) ==
    PostScale(PreScale(PreConcat(l.texTransform, flipV),
                       Q(1, getWidth(l)), Q(1, getHeight(l))),
              R(getWidth(l)), R(getHeight(l)))

\* variant: a failed invert leaves an identity textureMatrix
TextureMatrixResetOnFail(textureMatrixInv) ==
    The({IF Invertible(x) THEN MInverse(x) ELSE MIdentity :
         x \in {textureMatrixInv}})

\* textureMatrix: the inverse, or textureMatrixInv itself when invert fails
TextureMatrix(textureMatrixInv) ==
    The({IF Invertible(x) THEN MInverse(x) ELSE x : x \in {textureMatrixInv}})

\* variant: the layer transform is applied in readback mode too
MatrixWithLayerTransform(layerTransform, textureMatrix, dstRect) ==
    MConcat(layerTransform, textureMatrix)

\* matrix: the layer transform is left out when a dstRect is given
Matrix(layerTransform, textureMatrix, dstRect) ==
    IF dstRect # NoRect THEN textureMatrix
    ELSE MConcat(layerTransform, textureMatrix)

\* paint
Paint(l) ==
    [alpha |-> l.alpha, blendMode |-> l.mode, colorFilter |-> l.colorFilter,
     filterQuality |-> IF l.forceFilter THEN "kLow_SkFilterQuality"
                       ELSE "kNone_SkFilterQuality"]

\* variant: the identity test is missing
NonIdentityMatrixAlways(matrix) == TRUE

NonIdentityMatrix(matrix) == ~IsIdentity(matrix)

\* variant: concat without the save
ConcatWithoutSave(c, matrix) ==
    The({IF NonIdentityMatrix(m) THEN Concat(x, m) ELSE x :
         x \in {c}, m \in {matrix}})

\* if (nonIdentityMatrix) { canvas->save(); canvas->concat(matrix); }
SaveAndConcat(c, matrix) ==
    The({IF NonIdentityMatrix(m) THEN Concat(Save(x), m) ELSE x :
         x \in {c}, m \in {matrix}})

\* matrixInv: the inverse, or matrix itself when invert fails
MatrixInv(matrix) ==
    The({IF Invertible(m) THEN MInverse(m) ELSE m : m \in {matrix}})

\* the one draw call
Draw(c, l, matrix, dstRect) ==
    IF dstRect # NoRect
    THEN The({ DrawImageRect(c, l.image,
                             MapRect(matrixInv,
                                     MakeIWH(getWidth(l), getHeight(l))),
                             MapRect(matrixInv, dstRect),
                             Paint(l), "kFast_SrcRectConstraint") :
               matrixInv \in {MatrixInv(matrix)} })
    ELSE DrawImage(c, l.image, 0, 0, Paint(l))

\* variant: the restore is missing
RestoreMatrixSkipped(c, matrix) == c

\* if (nonIdentityMatrix) { canvas->restore(); }
RestoreMatrix(c, matrix) ==
    IF NonIdentityMatrix(matrix) THEN Restore(c) ELSE c

\* variant: a failed invert is reported as failure
ReturnValueInvertible(l) ==
    l.image # NoImage /\ Invertible(TextureMatrixInv(l))

\* return layerImage != nullptr
ReturnValue(l) == l.image # NoImage

\* variant: textureMatrixInv is a reference to the layer's texture transform
LayerAfterDrawAliased(l) == [l EXCEPT !.texTransform = TextureMatrixInv(l)]

\* DrawLayer only reads the layer (getters, and a copy of getTexTransform)
LayerAfterDraw(l) == l

\* the locals textureMatrix and matrix
Locals(l, dstRect) ==
    The({ [textureMatrix |-> t,
           matrix |-> Matrix(l.transform, t, dstRect)] :
          t \in {TextureMatrix(TextureMatrixInv(l))} })

\* the whole function: the return value, the canvas and the layer it leaves
DrawLayer(context, c, l, dstRect) ==
    IF ContextIsNull(context)
    THEN [ret |-> FALSE, canvas |-> c, layer |-> l]
    ELSE IF HasImage(l)
    THEN The({ [ret |-> ReturnValue(l),
                canvas |-> RestoreMatrix(Draw(SaveAndConcat(c, v.matrix),
                                              l, v.matrix, dstRect),
                                         v.matrix),
                layer |-> LayerAfterDraw(l)] :
               v \in {Locals(l, dstRect)} })
    ELSE [ret |-> ReturnValue(l), canvas |-> c, layer |-> l]

-----------------------------------------------------------------------------
(* The state machine: one canvas, one backing layer, a stream of draws. *)

NoPrev == [valid |-> FALSE, calls |-> <<>>, ret |-> FALSE]

Init ==
    /\ canvas \in Canvases
    /\ layer \in Layers \cup {NoLayer}
    /\ calls = <<>>
    /\ ret = FALSE
    /\ args = [op |-> "init", context |-> NullContext, dstRect |-> NoRect]
    /\ entry = [canvas |-> canvas, layer |-> layer]
    /\ prev = NoPrev

\* what one invocation of DrawLayer leaves behind: calls holds the canvas
\* calls of this invocation, entry the canvas and the layer as it found them,
\* prev the outcome of the invocation right before it when that one had the
\* same context, layer object and dstRect
Invoke(op, context, dstRect) ==
    \E r \in {DrawLayer(context, [canvas EXCEPT !.calls = <<>>], layer,
                        dstRect)} :
        /\ canvas' = [r.canvas EXCEPT !.calls = <<>>]
        /\ calls' = r.canvas.calls
        /\ ret' = r.ret
        /\ layer' = r.layer
        /\ args' = [op |-> op, context |-> context, dstRect |-> dstRect]
        /\ entry' = [canvas |-> canvas, layer |-> layer]
        /\ prev' = IF /\ args.op \in {"DrawLayer", "onDraw"}
                      /\ args.context = context
                      /\ args.dstRect = dstRect
                   THEN [valid |-> TRUE, calls |-> calls, ret |-> ret]
                   ELSE NoPrev

\* a caller draws the layer: DrawLayer(context, canvas, layer, dstRect); the
\* layer pointer is dereferenced unchecked, so callers pass a layer
DrawLayerCall(context, dstRect) ==
    /\ layer # NoLayer
    /\ Invoke("DrawLayer", context, dstRect)

\* LayerDrawable::onDraw
onDraw ==
    IF layer # NoLayer
    THEN Invoke("onDraw", canvas.grContext, NoRect)
    ELSE /\ args' = [op |-> "onDrawNoLayer", context |-> canvas.grContext,
                     dstRect |-> NoRect]
         /\ calls' = <<>>
         /\ ret' = FALSE
         /\ entry' = [canvas |-> canvas, layer |-> layer]
         /\ prev' = NoPrev
         /\ UNCHANGED <<canvas, layer>>

Next ==
    \/ \E context \in Contexts, dstRect \in DstRects :
           DrawLayerCall(context, dstRect)
    \/ onDraw

Spec == Init /\ [][Next]_vars

\* a DrawLayer invocation has run (directly or from onDraw)
Called == args.op \in {"DrawLayer", "onDraw"}

-----------------------------------------------------------------------------
(* What the last invocation was given and what the canvas saw. *)

\* the layer, context and dstRect the last invocation was given
L0 == entry.layer
Readback == args.dstRect # NoRect

\* the context was non-null and the layer had an image
Present == Called /\ args.context # NullContext /\ L0.image # NoImage

\* the names of the canvas calls, in order
Ops(cs) == [i \in 1..Len(cs) |-> cs[i].op]

Count(cs, op) == Cardinality({i \in 1..Len(cs) : cs[i].op = op})

DrawOps == {"drawImage", "drawImageRect"}
DrawCount(cs) == Cardinality({i \in 1..Len(cs) : cs[i].op \in DrawOps})

\* the draw call the arguments ask for
DrawOp == IF Readback THEN "drawImageRect" ELSE "drawImage"

\* the texture matrix and the final matrix of the last invocation's inputs
TexMatrix0 == TextureMatrix(TextureMatrixInv(L0))
Final0 == Matrix(L0.transform, TexMatrix0, args.dstRect)

\* the matrix the canvas was given: the concat's argument, the identity when
\* nothing was concatenated
Concatenated ==
    IF \E i \in 1..Len(calls) : calls[i].op = "concat"
    THEN calls[CHOOSE i \in 1..Len(calls) : calls[i].op = "concat"].matrix
    ELSE MIdentity

\* the draw call of the last invocation
TheDraw == calls[CHOOSE i \in 1..Len(calls) : calls[i].op \in DrawOps]

\* [1 0 0; 0 -1 h; 0 0 1]: (x, y) |-> (x, h - y)
FlipAt(h) == SetAll(1, 0, 0, 0, -1, h, 0, 0, 1)

-----------------------------------------------------------------------------
(* The claims. *)

\* C1: a DrawLayer invocation with a null context returns false and makes no
\* canvas call at all, whatever the layer and the destination rectangle.
C1_NullContext ==
    (Called /\ args.context = NullContext)
        => (ret = FALSE /\ calls = <<>> /\ canvas = entry.canvas)

C1_Witness ==
    /\ Called /\ args.context = NullContext
    /\ L0.image # NoImage /\ Readback
    /\ ret = FALSE /\ calls = <<>>

\* C2: with a non-null context and a layer without image, DrawLayer returns
\* false and the canvas sees no save, concat, restore or draw call.
C2_NoImage ==
    (Called /\ args.context # NullContext /\ L0.image = NoImage)
        => (ret = FALSE /\ calls = <<>> /\ canvas = entry.canvas)

C2_Witness ==
    /\ Called /\ args.context # NullContext /\ L0.image = NoImage
    /\ Readback /\ L0.transform # MIdentity
    /\ ret = FALSE /\ calls = <<>>

\* C3: the returned boolean is true exactly when the context is non-null and
\* the layer has an image; transforms, invertibility, the force-filter flag
\* and the destination rectangle have no say.
C3_PresenceSignal ==
    Called => (ret = (args.context # NullContext /\ L0.image # NoImage))

C3_Witness ==
    /\ Present /\ ret = TRUE
    /\ ~Invertible(TextureMatrixInv(L0))
    /\ Readback /\ L0.forceFilter /\ L0.transform # MIdentity

\* C4: context non-null, image present, final matrix not the identity: the
\* canvas calls are exactly save, concat(final matrix), one draw call
\* (drawImageRect with a destination rectangle, drawImage without), restore.
C4_SaveConcatDrawRestore ==
    (Present /\ ~IsIdentity(Final0))
        => /\ Ops(calls) = <<"save", "concat", DrawOp, "restore">>
           /\ calls[2].matrix = Final0

C4_Witness ==
    /\ Present /\ ~IsIdentity(Final0) /\ Readback
    /\ Ops(calls) = <<"save", "concat", "drawImageRect", "restore">>

\* C5: context non-null, image present, final matrix exactly the identity:
\* the canvas sees no save, no concat and no restore, and exactly one draw.
C5_IdentitySkipsSave ==
    (Present /\ IsIdentity(Final0)) => Ops(calls) = <<DrawOp>>

C5_Witness ==
    /\ Present /\ IsIdentity(Final0) /\ ~Readback
    /\ Ops(calls) = <<"drawImage">>

\* C6: a singular flipped-and-rescaled texture transform does not stop the
\* draw: the un-inverted matrix serves as texture matrix, in readback mode
\* the (singular) final matrix itself maps the image rectangle and the
\* destination rectangle, exactly one draw call is made, and true returned.
C6_SingularFallsBack ==
    (Present /\ ~Invertible(TextureMatrixInv(L0)))
        => /\ ret = TRUE
           /\ DrawCount(calls) = 1
           /\ Concatenated =
                  IF Readback THEN TextureMatrixInv(L0)
                  ELSE MConcat(L0.transform, TextureMatrixInv(L0))
           /\ Readback =>
                  /\ TheDraw.src = MapRect(TextureMatrixInv(L0),
                                           MakeIWH(getWidth(L0), getHeight(L0)))
                  /\ TheDraw.dst = MapRect(TextureMatrixInv(L0), args.dstRect)

C6_Witness ==
    /\ Present /\ ~Invertible(TextureMatrixInv(L0)) /\ Readback
    /\ ret = TRUE /\ DrawCount(calls) = 1
    /\ Concatenated = TextureMatrixInv(L0)

\* C7: with a destination rectangle the final matrix is the texture matrix
\* alone, so the concatenated matrix and the draw's rectangles are those of
\* the same layer with an identity placement transform; without one it is
\* Concat(placement transform, texture matrix), i.e. placement * texture (a
\* point goes through the texture matrix first), which is the readback final
\* matrix when the placement transform is the identity.
C7_PlacementOnlyWithoutRect ==
    Present =>
        /\ Readback =>
              /\ Concatenated = TexMatrix0
              /\ TheDraw.src = MapRect(MatrixInv(TexMatrix0),
                                       MakeIWH(getWidth(L0), getHeight(L0)))
              /\ TheDraw.dst = MapRect(MatrixInv(TexMatrix0), args.dstRect)
              /\ calls = DrawLayer(args.context,
                                   [entry.canvas EXCEPT !.calls = <<>>],
                                   [L0 EXCEPT !.transform = MIdentity],
                                   args.dstRect).canvas.calls
        /\ ~Readback =>
              /\ Concatenated = MConcat(L0.transform, TexMatrix0)
              /\ (L0.transform = MIdentity => Concatenated = TexMatrix0)

C7_Witness ==
    /\ Present /\ Readback /\ L0.transform # MIdentity
    /\ ~IsIdentity(TexMatrix0)
    /\ Concatenated = TexMatrix0
    /\ MConcat(L0.transform, TexMatrix0) # TexMatrix0

\* C8: when an invocation returns, the canvas' current transform and save
\* stack are what they were when it began, and within the invocation every
\* save has its one restore (never a restore before its save).
C8_TransformStackRestored ==
    Called =>
        /\ canvas.ctm = entry.canvas.ctm
        /\ canvas.stack = entry.canvas.stack
        /\ Count(calls, "save") = Count(calls, "restore")
        /\ \A n \in 1..Len(calls) :
               Count(SubSeq(calls, 1, n), "restore")
                   <= Count(SubSeq(calls, 1, n), "save")

C8_Witness ==
    /\ Present /\ ~IsIdentity(Final0) /\ prev.valid
    /\ Count(calls, "save") = 1
    /\ canvas.ctm # MIdentity /\ canvas.stack # <<>>
    /\ canvas.ctm = entry.canvas.ctm /\ canvas.stack = entry.canvas.stack

=============================================================================
